---- MODULE Spec2Model ----
(***************************************************************************)
(* BaseCreateWidget (src/studiolibrarymaya/basecreatewidget.py): the       *)
(* "create item" dialog of the Maya library tool.  The model covers the    *)
(* widget running inside Maya (the imports of lines 24-29 succeeded), its  *)
(* selection-changed script job, the thumbnail prompt and the accept /     *)
(* save / close chain.  Strings the code strips or concatenates are        *)
(* sequences of one-character strings.                                     *)
(***************************************************************************)
EXTENDS Integers, Sequences, FiniteSets, TLC

VARIABLES
    item,        \* self._item
    iconPath,    \* self._iconPath
    folderEdit,  \* self.ui.folderEdit.text()
    nameEdit,    \* self.ui.name.text(), unstripped
    scriptJob,   \* self._scriptJob: None or the id of a mutils.ScriptJob
    closed,      \* QtWidgets.QWidget.close(self) has run
    contains,    \* self.ui.contains label, written by updateContains
    selection,   \* maya.cmds.ls(selection=True)
    files,       \* paths for which os.path.exists is true
    kills,       \* kills[j]: number of kill() calls on the j-th ScriptJob created
    pending,     \* a capture window is open and has not delivered its path yet
    pc,          \* "idle", or "prompt" while accept() waits in MessageBox.question
    loc,         \* accept()'s locals name, path, objects while it runs
    op,          \* the handler that ran last, and how it ended
    log,         \* the calls made by the last handler, in order
    dialogs,     \* messages of the MessageBox.critical dialogs it showed
    raised,      \* the exception it let propagate to its caller
    saved,       \* the argument lists of its item.save calls
    pre          \* the widget as it was when the handler started

vars == <<item, iconPath, folderEdit, nameEdit, scriptJob, closed, contains,
          selection, files, kills, pending, pc, loc, op, log, dialogs, raised,
          saved, pre>>

----------------------------------------------------------------------------
(* Bounds and input sets *)

MaxJobs == 2
MaxLen == 1

Chars == {" ", "a"}
Texts == UNION {[1..n -> Chars] : n \in 0..MaxLen}
Folders == {<<>>, <<" ">>, <<"d">>}
Objects == {"pCube1"}
Items == {"item1", "item2"}

None == 0
NoExc == "no exception"
NoLoc == [name |-> <<>>, path |-> <<>>, objects |-> {}]
NoPre == [item |-> "", iconPath |-> "", folderEdit |-> <<>>, nameEdit |-> <<>>,
          scriptJob |-> None, closed |-> FALSE, jobs |-> 0, killCalls |-> 0,
          selection |-> {}, hasIcon |-> FALSE, retry |-> FALSE]

Yes == "Yes"
Ignore == "Ignore"
Cancel == "Cancel"
Buttons == {Yes, Ignore, Cancel}

TempThumbnailPath == "thumbnail.jpg"

MsgNoFolder == "No folder selected. Please select a destination folder."
MsgNoName == "No name specified. Please set a name before saving."
MsgNoObjects == "No objects selected. Please select at least one object."
MsgSaveFailed == "item.save failed"

----------------------------------------------------------------------------
(* Pure helpers *)

RECURSIVE LStrip(_)
LStrip(t) == IF t # <<>> /\ Head(t) = " " THEN LStrip(Tail(t)) ELSE t

RECURSIVE RStrip(_)
RStrip(t) ==
    IF t # <<>> /\ t[Len(t)] = " " THEN RStrip(SubSeq(t, 1, Len(t) - 1)) ELSE t

Strip(t) == RStrip(LStrip(t))

RECURSIVE SumSeq(_)
SumSeq(q) == IF q = <<>> THEN 0 ELSE Head(q) + SumSeq(Tail(q))

Exists(path, fs) == path \in fs

ContainsText(count) == [count |-> count, plural |-> IF count > 1 THEN "s" ELSE ""]

----------------------------------------------------------------------------
(* The state as one record, so that a handler is a function on states *)

S == [item |-> item, iconPath |-> iconPath, folderEdit |-> folderEdit,
      nameEdit |-> nameEdit, scriptJob |-> scriptJob, closed |-> closed,
      contains |-> contains, selection |-> selection, files |-> files,
      kills |-> kills, pending |-> pending, pc |-> pc, loc |-> loc, op |-> op,
      log |-> log, dialogs |-> dialogs, raised |-> raised, saved |-> saved,
      pre |-> pre]

Install(s) ==
    /\ item' = s.item
    /\ iconPath' = s.iconPath
    /\ folderEdit' = s.folderEdit
    /\ nameEdit' = s.nameEdit
    /\ scriptJob' = s.scriptJob
    /\ closed' = s.closed
    /\ contains' = s.contains
    /\ selection' = s.selection
    /\ files' = s.files
    /\ kills' = s.kills
    /\ pending' = s.pending
    /\ pc' = s.pc
    /\ loc' = s.loc
    /\ op' = s.op
    /\ log' = s.log
    /\ dialogs' = s.dialogs
    /\ raised' = s.raised
    /\ saved' = s.saved
    /\ pre' = s.pre

\* The widget and what it can see of Maya and the disc, as they are in s;
\* retry: s is the state an accept() left when item.save raised.
Snapshot(s) ==
    [item |-> s.item, iconPath |-> s.iconPath, folderEdit |-> s.folderEdit,
     nameEdit |-> s.nameEdit, scriptJob |-> s.scriptJob, closed |-> s.closed,
     jobs |-> Len(s.kills), killCalls |-> SumSeq(s.kills),
     selection |-> s.selection, hasIcon |-> Exists(s.iconPath, s.files),
     retry |-> (s.op = "accept" /\ s.pc = "idle" /\ s.raised = MsgSaveFailed)]

\* A handler is entered from the event loop: its record of calls starts empty.
Enter(s, h) ==
    [s EXCEPT !.op = h, !.log = <<>>, !.dialogs = <<>>, !.raised = NoExc,
              !.saved = <<>>, !.loc = NoLoc, !.pre = NoPre]

Call(s, what) == [s EXCEPT !.log = Append(@, what)]

----------------------------------------------------------------------------
(* Methods of BaseCreateWidget *)

objectCount(s) == Cardinality(s.selection)

updateContains(s) == [s EXCEPT !.contains = ContainsText(objectCount(s))]

selectionChanged(s) == updateContains(s)

setItem(s, i) == [s EXCEPT !.item = i]

setIconPath(s, path) == [s EXCEPT !.iconPath = path]

thumbnailCaptured(s, path) == setIconPath(s, path)

name(s) == Strip(s.nameEdit)

folderPath(s) == s.folderEdit

setFolderPath(s, path) == [s EXCEPT !.folderEdit = path]

browseFolder(s, chosen) == IF chosen # <<>> THEN setFolderPath(s, chosen) ELSE s

\* mutils.ScriptJob.kill()
Kill(s, j) == [Call(s, "kill") EXCEPT !.kills[j] = @ + 1]

\* Mutant: the handle is not cleared after kill().
setScriptJobEnabledKeepsHandle(s, enable) ==
    IF enable
    THEN IF s.scriptJob = None
         THEN [Call(s, "ScriptJob") EXCEPT !.kills = Append(@, 0),
                                           !.scriptJob = Len(s.kills) + 1]
         ELSE s
    ELSE IF s.scriptJob # None THEN Kill(s, s.scriptJob) ELSE s

\* Mutant: a script job is created without looking at the handle.
setScriptJobEnabledAlwaysCreates(s, enable) ==
    IF enable
    THEN [Call(s, "ScriptJob") EXCEPT !.kills = Append(@, 0),
                                      !.scriptJob = Len(s.kills) + 1]
    ELSE LET s1 == IF s.scriptJob # None THEN Kill(s, s.scriptJob) ELSE s
         IN  [s1 EXCEPT !.scriptJob = None]

setScriptJobEnabled(s, enable) ==
    IF enable
    THEN IF s.scriptJob = None
         THEN [Call(s, "ScriptJob") EXCEPT !.kills = Append(@, 0),
                                           !.scriptJob = Len(s.kills) + 1]
         ELSE s
    ELSE LET s1 == IF s.scriptJob # None THEN Kill(s, s.scriptJob) ELSE s
         IN  [s1 EXCEPT !.scriptJob = None]

\* Mutant: close() as QWidget has it, the script job left alone.
closeKeepsJob(s) == [Call(s, "QWidget.close") EXCEPT !.closed = TRUE]

close(s) ==
    LET s1 == setScriptJobEnabled(s, FALSE)
    IN  [Call(s1, "QWidget.close") EXCEPT !.closed = TRUE]

\* mutils.gui.thumbnailCapture either playblasts at once and calls
\* captured(path) before it returns (sync), or opens the capture window and
\* calls captured(path) later from the event loop.
thumbnailCapture(s, sync) ==
    LET s1 == Call(s, "thumbnailCapture")
    IN  IF sync
        THEN thumbnailCaptured(
                 [s1 EXCEPT !.files = @ \cup {TempThumbnailPath}],
                 TempThumbnailPath)
        ELSE [s1 EXCEPT !.pending = TRUE]

\* Mutant: only Ignore skips the capture.
showThumbnailCaptureDialogCapturesOnCancel(s, button, sync) ==
    LET s1 == Call(Call(s, "question"), button)
    IN  IF button # Ignore THEN thumbnailCapture(s1, sync) ELSE s1

showThumbnailCaptureDialog(s, button, sync) ==
    LET s1 == Call(Call(s, "question"), button)
    IN  IF button = Yes THEN thumbnailCapture(s1, sync) ELSE s1

\* item.save(objects, path=, iconPath=, metadata=); metadata, the stripped
\* comment text, is handed through and left out here.
itemSave(s, objects, path, icon, saveRaises) ==
    LET s1 == [Call(s, "item.save") EXCEPT
                  !.saved = Append(@, [item |-> s.item, objects |-> objects,
                                       path |-> path, iconPath |-> icon])]
    IN  IF saveRaises
        THEN [s1 EXCEPT !.raised = MsgSaveFailed]
        ELSE Call(s1, "item.save returned")

\* Mutant: the widget is closed before the item is saved.
saveClosesFirst(s, objects, path, icon, saveRaises) ==
    itemSave(close(s), objects, path, icon, saveRaises)

\* Mutant: the widget is closed whether or not item.save raised.
saveAlwaysCloses(s, objects, path, icon, saveRaises) ==
    close(itemSave(s, objects, path, icon, saveRaises))

save(s, objects, path, icon, saveRaises) ==
    LET s1 == itemSave(s, objects, path, icon, saveRaises)
    IN  IF s1.raised # NoExc THEN s1 ELSE close(s1)

\* Mutant: the selection is not checked.
ValidateSkipsSelection(path, nm, objects) ==
    IF path = <<>> THEN MsgNoFolder
    ELSE IF nm = <<>> THEN MsgNoName
    ELSE NoExc

\* The three checks of accept, lines 411-418: the exception raised, if any.
Validate(path, nm, objects) ==
    IF path = <<>> THEN MsgNoFolder
    ELSE IF nm = <<>> THEN MsgNoName
    ELSE IF objects = {} THEN MsgNoObjects
    ELSE NoExc

\* Mutant: the handler shows the dialog and does not re-raise.
exceptHandlerSwallows(s) ==
    [Call(s, "critical") EXCEPT !.dialogs = Append(@, s.raised), !.raised = NoExc]

\* except Exception as e: MessageBox.critical(..., str(e)); raise
exceptHandler(s) ==
    [Call(Call(s, "critical"), "raise") EXCEPT !.dialogs = Append(@, s.raised)]

\* Mutant: the selection is read again when the item is saved.
acceptSaveRereadsSelection(s, saveRaises) ==
    LET path == s.loc.path \o <<"/">> \o s.loc.name
        s1 == save(s, s.selection, path, s.iconPath, saveRaises)
    IN  IF s1.raised # NoExc THEN exceptHandler(s1) ELSE s1

\* accept from "path += ..." to its end, handler included.
acceptSave(s, saveRaises) ==
    LET path == s.loc.path \o <<"/">> \o s.loc.name
        s1 == save(s, s.loc.objects, path, s.iconPath, saveRaises)
    IN  IF s1.raised # NoExc THEN exceptHandler(s1) ELSE s1

\* accept up to the point where it either ends or waits for the answer to
\* MessageBox.question.
accept(s, saveRaises) ==
    LET s0 == [Call(Enter(s, "accept"), "ls") EXCEPT
                  !.pre = Snapshot(s),
                  !.loc = [name |-> name(s), path |-> folderPath(s),
                           objects |-> s.selection]]
        e == Validate(s0.loc.path, s0.loc.name, s0.loc.objects)
    IN  IF e # NoExc THEN exceptHandler([s0 EXCEPT !.raised = e])
        ELSE IF ~Exists(s0.iconPath, s0.files) THEN [s0 EXCEPT !.pc = "prompt"]
        ELSE acceptSave(s0, saveRaises)

\* Mutant: the answer Cancel is not looked at.
acceptAnsweredIgnoresCancel(s, button, sync, saveRaises) ==
    acceptSave([showThumbnailCaptureDialog(s, button, sync) EXCEPT !.pc = "idle"],
               saveRaises)

\* accept from the answer to MessageBox.question on.
acceptAnswered(s, button, sync, saveRaises) ==
    LET s1 == [showThumbnailCaptureDialog(s, button, sync) EXCEPT !.pc = "idle"]
    IN  IF button = Cancel THEN s1 ELSE acceptSave(s1, saveRaises)

\* __init__: fields cleared, selectionChanged(), setScriptJobEnabled(True),
\* setItem(item), updateContains().
construct(i, sel, fs) ==
    LET s0 == [item |-> "", iconPath |-> "", folderEdit |-> <<>>,
               nameEdit |-> <<>>, scriptJob |-> None, closed |-> FALSE,
               contains |-> ContainsText(0), selection |-> sel, files |-> fs,
               kills |-> <<>>, pending |-> FALSE, pc |-> "idle", loc |-> NoLoc,
               op |-> "__init__", log |-> <<>>, dialogs |-> <<>>,
               raised |-> NoExc, saved |-> <<>>, pre |-> NoPre]
        s1 == setScriptJobEnabled(selectionChanged(s0), TRUE)
    IN  updateContains(setItem(s1, i))

----------------------------------------------------------------------------
(* Actions: the events the host delivers to the widget *)

Start(s) ==
    /\ item = s.item
    /\ iconPath = s.iconPath
    /\ folderEdit = s.folderEdit
    /\ nameEdit = s.nameEdit
    /\ scriptJob = s.scriptJob
    /\ closed = s.closed
    /\ contains = s.contains
    /\ selection = s.selection
    /\ files = s.files
    /\ kills = s.kills
    /\ pending = s.pending
    /\ pc = s.pc
    /\ loc = s.loc
    /\ op = s.op
    /\ log = s.log
    /\ dialogs = s.dialogs
    /\ raised = s.raised
    /\ saved = s.saved
    /\ pre = s.pre

\* The widget right after BaseCreateWidget(item): no thumbnail captured yet.
Init == \E i \in Items, sel \in SUBSET Objects : Start(construct(i, sel, {}))

SetItem ==
    \E i \in Items : pc = "idle" /\ Install(setItem(Enter(S, "setItem"), i))

SetFolderPath ==
    \E p \in Folders :
        pc = "idle" /\ Install(setFolderPath(Enter(S, "setFolderPath"), p))

BrowseFolder ==
    \E p \in Folders :
        pc = "idle" /\ Install(browseFolder(Enter(S, "browseFolder"), p))

\* The user types in the name field.
EditName ==
    \E t \in Texts :
        pc = "idle" /\ Install([Enter(S, "editName") EXCEPT !.nameEdit = t])

\* The Maya selection changes; the SelectionChanged event reaches the widget
\* through its script job, when it holds a live one.
MayaSelect ==
    \E sel \in SUBSET Objects :
        /\ sel # selection
        /\ LET s0 == IF pc = "idle" THEN Enter(S, "SelectionChanged") ELSE S
               s1 == [s0 EXCEPT !.selection = sel]
           IN  Install(IF scriptJob # None THEN selectionChanged(s1) ELSE s1)

\* The temporary thumbnail file is removed from disc.
RemoveFile ==
    /\ TempThumbnailPath \in files
    /\ LET s0 == IF pc = "idle" THEN Enter(S, "remove") ELSE S
       IN  Install([s0 EXCEPT !.files = @ \ {TempThumbnailPath}])

\* thumbnailButton.clicked
ThumbnailCapture ==
    \E sync \in BOOLEAN :
        pc = "idle" /\ Install(thumbnailCapture(Enter(S, "thumbnailCapture"), sync))

\* The capture window (or the capture menu) delivers captured(path).
ThumbnailCaptured ==
    /\ pc = "idle"
    /\ pending
    /\ Install(thumbnailCaptured(
           [Enter(S, "_thumbnailCaptured") EXCEPT
               !.pending = FALSE, !.files = @ \cup {TempThumbnailPath}],
           TempThumbnailPath))

SetScriptJobEnabled ==
    \E enable \in BOOLEAN :
        /\ pc = "idle"
        /\ (enable /\ scriptJob = None) => Len(kills) < MaxJobs
        /\ Install(setScriptJobEnabled(
               [Enter(S, IF enable THEN "setScriptJobEnabled(True)"
                                   ELSE "setScriptJobEnabled(False)")
                   EXCEPT !.pre = Snapshot(S)],
               enable))

Close ==
    /\ pc = "idle"
    /\ Install(close([Enter(S, "close") EXCEPT !.pre = Snapshot(S)]))

\* acceptButton.clicked
Accept ==
    \E saveRaises \in BOOLEAN :
        pc = "idle" /\ Install(accept(S, saveRaises))

\* The user answers the thumbnail question.
Answer ==
    \E button \in Buttons, sync \in BOOLEAN, saveRaises \in BOOLEAN :
        pc = "prompt" /\ Install(acceptAnswered(S, button, sync, saveRaises))

Next ==
    \/ SetItem
    \/ SetFolderPath
    \/ BrowseFolder
    \/ EditName
    \/ MayaSelect
    \/ RemoveFile
    \/ ThumbnailCapture
    \/ ThumbnailCaptured
    \/ SetScriptJobEnabled
    \/ Close
    \/ Accept
    \/ Answer

Spec == Init /\ [][Next]_vars

----------------------------------------------------------------------------
(* Reading the record of the last handler *)

Has(ev) == \E k \in DOMAIN log : log[k] = ev

Count(ev) == Cardinality({k \in DOMAIN log : log[k] = ev})

Before(a, b) == \E k, m \in DOMAIN log : k < m /\ log[k] = a /\ log[m] = b

\* accept() has run and is over; accept() waits for the thumbnail answer.
AcceptEnded == op = "accept" /\ pc = "idle"
AcceptWaits == op = "accept" /\ pc = "prompt"

\* What accept() read when it started.
FolderRead == pre.folderEdit
NameRead == Strip(pre.nameEdit)
SelectionRead == pre.selection
InputsValid == FolderRead # <<>> /\ NameRead # <<>> /\ SelectionRead # {}

SaveReturned == Has("item.save returned")
SaveRaised == Has("item.save") /\ ~SaveReturned
AllJobsKilled == \A j \in DOMAIN kills : kills[j] >= 1
KillsByHandler == SumSeq(kills) - pre.killCalls
LiveJobs == Len(kills) - SumSeq(kills)

----------------------------------------------------------------------------
(* Claims *)

\* C1: accept() refuses to save when the folder path, the trimmed name or
\* the selection is empty: item.save is not called, the widget is not closed
\* and the one error dialog shown carries the message of a check that failed
\* (the three messages are pairwise distinct); whenever accept() has called
\* item.save, the folder path, the name and the selection it read were all
\* non-empty.
C1_RefusesInvalidInput ==
    /\ Cardinality({MsgNoFolder, MsgNoName, MsgNoObjects}) = 3
    /\ op = "accept" =>
        /\ ~InputsValid =>
            /\ saved = <<>> /\ ~Has("item.save")
            /\ closed = pre.closed /\ ~Has("QWidget.close")
            /\ \E m \in {MsgNoFolder, MsgNoName, MsgNoObjects} : dialogs = <<m>>
            /\ dialogs = <<MsgNoFolder>> => FolderRead = <<>>
            /\ dialogs = <<MsgNoName>> => NameRead = <<>>
            /\ dialogs = <<MsgNoObjects>> => SelectionRead = {}
        /\ saved # <<>> => InputsValid

\* A name of blanks only is refused with the message about the name.
C1_Witness ==
    /\ AcceptEnded
    /\ FolderRead # <<>> /\ pre.nameEdit # <<>> /\ NameRead = <<>>
    /\ dialogs = <<MsgNoName>>
    /\ saved = <<>> /\ ~closed

\* C2: when accept() passes the three validations and no icon file exists at
\* the icon path, the user is asked exactly once (Yes / Ignore / Cancel); on
\* Cancel accept() returns without item.save, without closing, without an
\* error dialog and without raising.  When the icon file exists nobody is
\* asked.
C2_PromptAndCancel ==
    op = "accept" =>
        /\ AcceptWaits => InputsValid /\ ~pre.hasIcon /\ saved = <<>>
        /\ (AcceptEnded /\ InputsValid) =>
               Count("question") = (IF pre.hasIcon THEN 0 ELSE 1)
        /\ ~InputsValid => ~Has("question") /\ pc = "idle"
        /\ Has(Cancel) =>
            /\ saved = <<>> /\ ~Has("item.save")
            /\ closed = pre.closed /\ ~Has("QWidget.close")
            /\ dialogs = <<>> /\ ~Has("critical")
            /\ raised = NoExc

C2_Witness ==
    /\ AcceptEnded /\ InputsValid /\ ~pre.hasIcon
    /\ log = <<"ls", "question", Cancel>>
    /\ ~closed /\ scriptJob # None

\* C3: a successful save closes the widget and releases the script job
\* exactly once: kill() is called once on the job held and the handle becomes
\* None; no script job is ever killed twice, and close() or
\* setScriptJobEnabled(False) on a widget without a job calls kill() zero
\* times.
C3_ReleasedExactlyOnce ==
    /\ \A j \in DOMAIN kills : kills[j] <= 1
    /\ (AcceptEnded /\ SaveReturned) =>
        /\ closed /\ scriptJob = None /\ AllJobsKilled
        /\ KillsByHandler = (IF pre.scriptJob # None THEN 1 ELSE 0)
        /\ Count("kill") = KillsByHandler
    /\ (op \in {"close", "setScriptJobEnabled(False)"}) =>
        /\ scriptJob = None
        /\ KillsByHandler = (IF pre.scriptJob # None THEN 1 ELSE 0)

\* close() follows a successful save: nothing is left to kill.
C3_Witness ==
    /\ op = "close" /\ pre.closed /\ pre.scriptJob = None
    /\ kills = <<1>> /\ KillsByHandler = 0

C5_NoJobAfterClose == closed => (scriptJob = None /\ AllJobsKilled)

\* C5 as amended: when close() returns the handle is None and every script
\* job the widget created has been killed, and that stays so until
\* setScriptJobEnabled(True) is called; a selection change reaches the widget
\* (the label is rewritten) only while a job is live.
C5_JobCancelledOnClose ==
    /\ [](op = "close" => (closed /\ scriptJob = None /\ AllJobsKilled))
    /\ [][(scriptJob = None /\ AllJobsKilled /\ op' # "setScriptJobEnabled(True)")
            => (scriptJob' = None /\ AllJobsKilled')]_vars
    /\ [][(scriptJob = None /\ selection' # selection) => contains' = contains]_vars

C5_Witness ==
    /\ op = "close" /\ ~pre.closed /\ pre.scriptJob # None
    /\ closed /\ scriptJob = None /\ log = <<"kill", "QWidget.close">>

\* C6: one accept() validates, then delegates, then closes: item.save is
\* called at most once and only after the three validations passed and the
\* thumbnail question, when asked, was answered; the widget is closed only
\* after that item.save returned, never before it or without it.
C6_ValidateDelegateClose ==
    op = "accept" =>
        /\ Count("item.save") <= 1 /\ Len(saved) = Count("item.save")
        /\ Has("item.save") =>
            /\ InputsValid
            /\ pc = "idle"
            /\ ~pre.hasIcon => (Before("question", "item.save") /\ ~Has(Cancel))
        /\ Has("QWidget.close") =>
            /\ Count("QWidget.close") = 1
            /\ Before("item.save", "item.save returned")
            /\ Before("item.save returned", "QWidget.close")
        /\ Has("kill") => Before("item.save returned", "kill")
        /\ closed # pre.closed => (SaveReturned /\ Has("QWidget.close"))
        /\ SaveReturned => Has("QWidget.close")

C6_Witness ==
    /\ AcceptEnded
    /\ log = <<"ls", "question", Ignore, "item.save", "item.save returned",
               "kill", "QWidget.close">>
    /\ ~pre.closed /\ closed

\* C7: when item.save raises, the widget stays as open as it was and the
\* script job is untouched (no kill(), same handle), the error dialog is
\* shown and the exception propagates; an accept() tried again from that
\* state, if item.save then returns, closes the widget and releases the
\* script job exactly once.
C7_SaveFailureLeavesWidget ==
    AcceptEnded =>
        /\ SaveRaised =>
            /\ closed = pre.closed
            /\ scriptJob = pre.scriptJob
            /\ KillsByHandler = 0 /\ ~Has("kill") /\ Len(kills) = pre.jobs
            /\ dialogs = <<MsgSaveFailed>> /\ raised = MsgSaveFailed
        /\ (pre.retry /\ SaveReturned) =>
            /\ closed /\ scriptJob = None
            /\ KillsByHandler = (IF pre.scriptJob # None THEN 1 ELSE 0)

C7_Witness ==
    /\ AcceptEnded /\ pre.retry /\ SaveReturned
    /\ ~pre.closed /\ pre.scriptJob # None
    /\ closed /\ scriptJob = None /\ KillsByHandler = 1

\* C8: at most one script job of the widget is live: jobs created minus
\* kill() calls is 0 or 1, it is 1 exactly when the handle is not None, and
\* setScriptJobEnabled(True) on a widget that holds a job creates none.
C8_AtMostOneLiveJob ==
    /\ LiveJobs \in {0, 1}
    /\ (LiveJobs = 1) <=> (scriptJob # None)
    /\ scriptJob # None => (scriptJob \in DOMAIN kills /\ kills[scriptJob] = 0)
    /\ (op = "setScriptJobEnabled(True)" /\ pre.scriptJob # None) =>
           (Len(kills) = pre.jobs /\ scriptJob = pre.scriptJob /\ log = <<>>)

C8_Witness ==
    /\ op = "setScriptJobEnabled(True)" /\ pre.scriptJob = 2
    /\ scriptJob = 2 /\ kills = <<1, 0>>

C10_NoSaveNoChange ==
    (op = "accept" /\ ~Has("item.save")) =>
        /\ item = pre.item
        /\ iconPath = pre.iconPath
        /\ folderEdit = pre.folderEdit
        /\ nameEdit = pre.nameEdit
        /\ scriptJob = pre.scriptJob
        /\ closed = pre.closed
        /\ Len(kills) = pre.jobs /\ KillsByHandler = 0

C10_Witness ==
    /\ AcceptEnded /\ ~Has("item.save")
    /\ dialogs = <<MsgNoObjects>>
    /\ iconPath = TempThumbnailPath /\ scriptJob # None /\ ~closed

====
